---------------------------- MODULE Spec2Model ----------------------------
(***************************************************************************)
(* ImageMapper: the HTML image-map parser (utils/map_parser.py), the image *)
(* slicer (utils/image_slicer.py), the upload collaborator                 *)
(* (utils/uploader.py) and the request handler process_image (app.py).     *)
(*                                                                         *)
(* Three specifications share the module:                                  *)
(*   SpecParse  parse_html_map applied to bounded lists of <area> elements *)
(*   SpecSlice  a coords string parsed and handed to slice_image and to    *)
(*              validate_coordinates                                       *)
(*   Spec       concurrent process_image requests over one filesystem and  *)
(*              one remote store                                           *)
(*                                                                         *)
(* Text is a sequence of one-character strings, so that split, strip, int  *)
(* and lower are computed character by character as Python computes them.  *)
(***************************************************************************)
EXTENDS Integers, Sequences, FiniteSets, TLC

\* ------------------------------------------------------------------ bounds
\* longest list of <area> elements handed to parse_html_map
MaxAreas == 2
\* largest image width and height
MaxDim == 2
\* number of concurrent process_image requests (gunicorn threads in use)
NumReq == 2

\* ------------------------------------------------------------ Python text
Digits == {"0", "1", "2", "3", "4", "5", "6", "7", "8", "9"}

DigitVal(c) ==
    CASE c = "0" -> 0 [] c = "1" -> 1 [] c = "2" -> 2 [] c = "3" -> 3
      [] c = "4" -> 4 [] c = "5" -> 5 [] c = "6" -> 6 [] c = "7" -> 7
      [] c = "8" -> 8 [] c = "9" -> 9

\* str.lower() on one character
LowerChar(c) ==
    CASE c = "A" -> "a" [] c = "B" -> "b" [] c = "C" -> "c" [] c = "D" -> "d"
      [] c = "E" -> "e" [] c = "F" -> "f" [] c = "G" -> "g" [] c = "H" -> "h"
      [] c = "I" -> "i" [] c = "J" -> "j" [] c = "K" -> "k" [] c = "L" -> "l"
      [] c = "M" -> "m" [] c = "N" -> "n" [] c = "O" -> "o" [] c = "P" -> "p"
      [] c = "Q" -> "q" [] c = "R" -> "r" [] c = "S" -> "s" [] c = "T" -> "t"
      [] c = "U" -> "u" [] c = "V" -> "v" [] c = "W" -> "w" [] c = "X" -> "x"
      [] c = "Y" -> "y" [] c = "Z" -> "z" [] OTHER -> c

Lower(s) == [k \in 1..Len(s) |-> LowerChar(s[k])]

IsSpace(c) == c \in {" ", "\t", "\n"}

RECURSIVE LStrip(_)
LStrip(s) ==
    IF s # <<>> /\ IsSpace(Head(s)) THEN LStrip(Tail(s)) ELSE s

RECURSIVE RStrip(_)
RStrip(s) ==
    IF s # <<>> /\ IsSpace(s[Len(s)]) THEN RStrip(SubSeq(s, 1, Len(s) - 1)) ELSE s

\* str.strip()
Strip(s) == RStrip(LStrip(s))

\* str.split(sep): the pieces between separators; always at least one piece
RECURSIVE SplitFrom(_, _, _, _)
SplitFrom(s, sep, k, cur) ==
    IF k > Len(s) THEN <<cur>>
    ELSE IF s[k] = sep THEN <<cur>> \o SplitFrom(s, sep, k + 1, <<>>)
    ELSE SplitFrom(s, sep, k + 1, Append(cur, s[k]))

Split(s, sep) == SplitFrom(s, sep, 1, <<>>)

\* the digits of an int() literal: digits with single underscores between them
IntBodyOk(b) ==
    /\ b # <<>>
    /\ \A k \in 1..Len(b) : b[k] \in Digits \/ b[k] = "_"
    /\ b[1] \in Digits
    /\ b[Len(b)] \in Digits
    /\ \A k \in 1..(Len(b) - 1) : ~(b[k] = "_" /\ b[k + 1] = "_")

IntBody(t) ==
    LET u == Strip(t)
    IN  IF u # <<>> /\ u[1] \in {"+", "-"} THEN Tail(u) ELSE u

\* int(t) raises ValueError
IntRaises(t) == ~IntBodyOk(IntBody(t))

RECURSIVE DigitsValue(_, _)
DigitsValue(b, acc) ==
    IF b = <<>> THEN acc
    ELSE IF Head(b) = "_" THEN DigitsValue(Tail(b), acc)
    ELSE DigitsValue(Tail(b), 10 * acc + DigitVal(Head(b)))

\* int(t) for a literal that does not raise (Python integers are unbounded)
IntValue(t) ==
    LET u == Strip(t)
        v == DigitsValue(IntBody(t), 0)
    IN  IF u[1] = "-" THEN 0 - v ELSE v

\* ---------------------------------------------------------- <area> element
\* An attribute is <<>> when absent and <<text>> when present.
NoAttr == <<>>

Attr(text) == <<text>>

\* faulty variant of Get: the default is dropped, an absent attribute reads
\* as the empty text
Get_NoDefault(attr, default) == IF attr = NoAttr THEN <<>> ELSE attr[1]

\* Tag.get(name, default)
Get(attr, default) == IF attr = NoAttr THEN default ELSE attr[1]

\* ------------------------------------------------- utils/map_parser.py
\* faulty variant of ShapeAccepted: the shape compared without lower()
ShapeAccepted_CaseSensitive(shape) == shape = <<"r", "e", "c", "t">>

ShapeAccepted(shape) == Lower(shape) = <<"r", "e", "c", "t">>

\* faulty variant of CoordCountOk: fewer than four coordinates let through
CoordCountOk_AtMost(coords) == Len(coords) <= 4

CoordCountOk(coords) == Len(coords) = 4

\* The body of the for loop for one element: <<>> when the element is
\* skipped (continue, or an exception caught by the inner handlers), and
\* <<region>> when it is appended.
ParseArea(area) ==
    LET coords_str == Get(area.coords, <<>>)
        tokens == Split(coords_str, ",")
    IN  IF coords_str = <<>> THEN <<>>
        ELSE IF \E k \in 1..Len(tokens) : IntRaises(tokens[k]) THEN <<>>
        ELSE LET coords == [k \in 1..Len(tokens) |-> IntValue(tokens[k])]
                 shape == Get(area.shape, <<"r", "e", "c", "t">>)
             IN  IF ~CoordCountOk(coords) THEN <<>>
                 ELSE IF ~ShapeAccepted(shape) THEN <<>>
                 ELSE << [coords |-> coords,
                          href |-> Get(area.href, <<"#">>),
                          alt |-> Get(area.alt, <<>>),
                          title |-> Get(area.title, <<>>),
                          shape |-> shape] >>

RECURSIVE ParseAreas(_)
ParseAreas(areas) ==
    IF areas = <<>> THEN <<>>
    ELSE ParseArea(Head(areas)) \o ParseAreas(Tail(areas))

\* The try block: BeautifulSoup either raises on the markup or yields the
\* <area> elements in document order.
ParseBody(html) ==
    IF html.unparseable THEN [raised |-> TRUE, value |-> <<>>]
    ELSE [raised |-> FALSE, value |-> ParseAreas(html.areas)]

\* faulty variant of OuterHandler: no handler, the exception escapes
OuterHandler_Reraise(res) == res

\* except Exception: return []
OuterHandler(res) ==
    IF res.raised THEN [raised |-> FALSE, value |-> <<>>] ELSE res

parse_html_map(html) == OuterHandler(ParseBody(html))

\* faulty variant of validate_coordinates: x1 <= x2 and y1 <= y2 let through
validate_coordinates_Closed(coords, image_width, image_height) ==
    IF Len(coords) # 4 THEN FALSE
    ELSE /\ coords[1] >= 0 /\ coords[2] >= 0
         /\ coords[3] <= image_width /\ coords[4] <= image_height
         /\ coords[1] <= coords[3] /\ coords[2] <= coords[4]

\* validate_coordinates: False when the unpacking raises, else
\* x1 >= 0 and y1 >= 0 and x2 <= image_width and y2 <= image_height and
\* x1 < x2 and y1 < y2
validate_coordinates(coords, image_width, image_height) ==
    IF Len(coords) # 4 THEN FALSE
    ELSE /\ coords[1] >= 0 /\ coords[2] >= 0
         /\ coords[3] <= image_width /\ coords[4] <= image_height
         /\ coords[1] < coords[3] /\ coords[2] < coords[4]


\* ------------------------------------------------------------ filesystem
\* A directory path is <<folder, session>>, a file path is
\* <<folder, session, name>>; a name is <<kind, number>>.  An image file's
\* content is its pixel size.
UPLOAD_FOLDER == "uploads"

SLICES_FOLDER == "slices"

OUTPUT_FOLDER == "output"

EmptyFS == [dirs |-> {}, files |-> <<>>]

\* os.path.join(dir, name)
PathJoin(dir, name) == Append(dir, name)

Under(dir, path) == Len(path) > Len(dir) /\ SubSeq(path, 1, Len(dir)) = dir

\* os.makedirs(dir, exist_ok=True)
MakeDirs(f, dir) == [f EXCEPT !.dirs = @ \cup {dir}]

WriteFile(f, path, content) ==
    [f EXCEPT !.files = [p \in (DOMAIN @) \cup {path} |->
                            IF p = path THEN content ELSE @[p]]]

\* shutil.rmtree(dir)
RmTree(f, dir) ==
    [dirs |-> f.dirs \ {dir},
     files |-> [p \in {q \in DOMAIN f.files : ~Under(dir, q)} |-> f.files[p]]]

\* ------------------------------------------------ utils/image_slicer.py
\* f"slice_{slice_index}.png"
SliceName(slice_index) == <<"slice", slice_index>>

\* faulty variant of OutOfBounds: the upper limits are not tested
OutOfBounds_NoUpper(coords, img_width, img_height) ==
    coords[1] < 0 \/ coords[2] < 0

\* x1 < 0 or y1 < 0 or x2 > img_width or y2 > img_height
OutOfBounds(coords, img_width, img_height) ==
    coords[1] < 0 \/ coords[2] < 0 \/ coords[3] > img_width \/ coords[4] > img_height

\* x1 >= x2 or y1 >= y2
Degenerate(coords) == coords[1] >= coords[3] \/ coords[2] >= coords[4]

\* faulty variant of CropSize: the box taken as inclusive of its right and
\* lower edge
CropSize_Inclusive(coords) ==
    [w |-> coords[3] - coords[1] + 1, h |-> coords[4] - coords[2] + 1]

\* img.crop((x1, y1, x2, y2)).size
CropSize(coords) == [w |-> coords[3] - coords[1], h |-> coords[4] - coords[2]]

\* The result of slice_image: raised with the generic message, or the path
\* written; fs is the filesystem it leaves.
SliceFailure(f, cause) ==
    [raised |-> TRUE, message |-> "Failed to slice image", cause |-> cause,
     path |-> <<>>, fs |-> f]

slice_image(f, image_path, coords, slice_index, output_dir) ==
    IF image_path \notin DOMAIN f.files THEN SliceFailure(f, "open")
    ELSE LET img == f.files[image_path]
             output_path == PathJoin(output_dir, SliceName(slice_index))
         IN  IF Len(coords) # 4 THEN SliceFailure(f, "unpack")
             ELSE IF OutOfBounds(coords, img.w, img.h) THEN SliceFailure(f, "bounds")
             ELSE IF Degenerate(coords) THEN SliceFailure(f, "degenerate")
             ELSE IF output_dir \notin f.dirs THEN SliceFailure(f, "save")
             ELSE [raised |-> FALSE, message |-> "", cause |-> "",
                   path |-> output_path,
                   fs |-> WriteFile(f, output_path, CropSize(coords))]

\* ------------------------------------------------------- test inputs
DigitChar(d) ==
    CASE d = 0 -> "0" [] d = 1 -> "1" [] d = 2 -> "2" [] d = 3 -> "3"
      [] d = 4 -> "4" [] d = 5 -> "5" [] d = 6 -> "6" [] d = 7 -> "7"
      [] d = 8 -> "8" [] d = 9 -> "9"

RECURSIVE NatChars(_)
NatChars(n) ==
    IF n < 10 THEN <<DigitChar(n)>>
    ELSE Append(NatChars(n \div 10), DigitChar(n % 10))

\* the decimal text of an integer
FormatInt(n) == IF n < 0 THEN <<"-">> \o NatChars(0 - n) ELSE NatChars(n)

RECURSIVE Join(_, _)
Join(parts, sep) ==
    IF parts = <<>> THEN <<>>
    ELSE IF Len(parts) = 1 THEN parts[1]
    ELSE parts[1] \o <<sep>> \o Join(Tail(parts), sep)

\* A coords token as it is written, with what it means: an integer and its
\* value, or no integer.
Tok(text, isint, val) == [text |-> text, isint |-> isint, val |-> val]

T0 == Tok(<<"0">>, TRUE, 0)

T1 == Tok(<<"1">>, TRUE, 1)

T2 == Tok(<<"2">>, TRUE, 2)

TPadded == Tok(<<" ", "2", " ">>, TRUE, 2)

TPlus == Tok(<<"+", "1">>, TRUE, 1)

TMinus == Tok(<<"-", "1">>, TRUE, -1)

TTen == Tok(<<"1", "0">>, TRUE, 10)

TUnderscore == Tok(<<"1", "_", "0">>, TRUE, 10)

TWord == Tok(<<"x">>, FALSE, 0)

TEmpty == Tok(<<>>, FALSE, 0)

TFloat == Tok(<<"1", ".", "5">>, FALSE, 0)

TGap == Tok(<<"1", " ", "2">>, FALSE, 0)

TSign == Tok(<<"-">>, FALSE, 0)

\* The token lists written into coords attributes.
GoodCoords == { <<T0, T0, T2, T1>>, <<TPlus, T0, TPadded, TTen>>,
                <<T2, T2, T1, T1>>, <<TMinus, T0, T1, TUnderscore>> }

BadCoords == { <<>>, <<T1, T2, T1>>, <<T0, T0, T1, T1, T2>>,
               <<T0, TWord, T1, T1>>, <<T0, T0, T1, TEmpty>>,
               <<TFloat, T0, T2, T2>>, <<T0, TGap, T2, T2>>,
               <<TSign, T0, T1, T1, T1>> }

\* A shape as it is written, with whether it is "rect" in some casing.
ShapeRect == [text |-> <<"r", "e", "c", "t">>, rect |-> TRUE]

ShapeUpper == [text |-> <<"R", "E", "C", "T">>, rect |-> TRUE]

ShapeMixed == [text |-> <<"R", "e", "c", "T">>, rect |-> TRUE]

ShapeCircle == [text |-> <<"c", "i", "r", "c", "l", "e">>, rect |-> FALSE]

ShapeBlank == [text |-> <<>>, rect |-> FALSE]

ShapePadded == [text |-> <<" ", "r", "e", "c", "t">>, rect |-> FALSE]

NoMeta == [href |-> NoAttr, alt |-> NoAttr, title |-> NoAttr]

FullMeta == [href |-> Attr(<<"/", "a">>), alt |-> Attr(<<"A">>), title |-> Attr(<<"t">>)]

HrefOnly == [href |-> Attr(<<"/", "b">>), alt |-> NoAttr, title |-> NoAttr]

\* href="" alt="" title="": present, with empty text
EmptyMeta == [href |-> Attr(<<>>), alt |-> Attr(<<>>), title |-> Attr(<<>>)]

\* An <area> as written: toks and shape are attributes (absent or present).
Gen(toks, shape, meta) == [toks |-> toks, shape |-> shape, meta |-> meta]

GenPool ==
    {Gen(Attr(c), NoAttr, NoMeta) : c \in GoodCoords \cup BadCoords}
    \cup {Gen(NoAttr, NoAttr, FullMeta), Gen(NoAttr, Attr(ShapeRect), NoMeta)}
    \cup {Gen(Attr(<<T0, T0, T1, T2>>), Attr(s), FullMeta) :
            s \in {ShapeRect, ShapeUpper, ShapeMixed, ShapeCircle, ShapeBlank, ShapePadded}}
    \cup {Gen(Attr(<<T1, T0, T2, T2>>), NoAttr, HrefOnly),
          Gen(Attr(<<T0, TWord, T1, T1>>), Attr(ShapeCircle), HrefOnly),
          Gen(Attr(<<T2, T1, T0, TTen>>), NoAttr, EmptyMeta)}

\* the element the markup holds for a written <area>
Render(g) ==
    [coords |-> IF g.toks = NoAttr THEN NoAttr
                ELSE Attr(Join([k \in 1..Len(g.toks[1]) |-> g.toks[1][k].text], ",")),
     shape |-> IF g.shape = NoAttr THEN NoAttr ELSE Attr(g.shape[1].text),
     href |-> g.meta.href, alt |-> g.meta.alt, title |-> g.meta.title]

SeqsUpTo(S, n) == UNION {[1..k -> S] : k \in 0..n}

\* ------------------------------------------------------------------ state
VARIABLES
    p_pc,        \* SpecParse: "ready" before the call, "done" after, else "off"
    p_gens,      \* the <area> elements as written (what the caller knows of them)
    p_html,      \* the argument of parse_html_map
    p_result,    \* what the call did: [raised, value]
    s_pc,        \* SpecSlice: "parse", "slice", "done", else "off"
    s_in,        \* the rectangle, image size and index the test was built from
    s_str,       \* the coords attribute text
    s_region,    \* what the parser returned for it: <<>> or <<region>>
    s_res,       \* the result of slice_image
    s_valid,     \* the result of validate_coordinates: <<>> before the call
    fs,          \* the filesystem: [dirs, files]
    env,         \* process-wide Cloudinary configuration, read at import
    req,         \* per request thread: the locals of process_image
    cloud,       \* the remote store: public_id -> image size
    used_ids,    \* the session ids uuid4 has produced
    writer,      \* which request wrote each file and each remote image
    collisions   \* accesses of a request to what another request wrote

pvars == <<p_pc, p_gens, p_html, p_result>>

svars == <<s_pc, s_in, s_str, s_region, s_res, s_valid>>

rvars == <<env, req, cloud, used_ids, writer, collisions>>

vars == <<pvars, svars, fs, rvars>>

NoResult == [raised |-> FALSE, value |-> <<>>]

ParseOff ==
    /\ p_pc = "off"
    /\ p_gens = <<>>
    /\ p_html = [unparseable |-> FALSE, areas |-> <<>>]
    /\ p_result = NoResult

SliceOff ==
    /\ s_pc = "off"
    /\ s_in = [rect |-> <<0, 0, 0, 0>>, w |-> 0, h |-> 0, index |-> 0, io |-> "ok"]
    /\ s_str = <<>>
    /\ s_region = <<>>
    /\ s_res = SliceFailure(EmptyFS, "")
    /\ s_valid = <<>>

ReqOff ==
    /\ env = [cloudinary_enabled |-> FALSE]
    /\ req = <<>>
    /\ cloud = <<>>
    /\ used_ids = {}
    /\ writer = <<>>
    /\ collisions = {}

\* ------------------------------------------------------------- SpecParse
InitParse ==
    /\ p_pc = "ready"
    /\ p_gens \in SeqsUpTo(GenPool, MaxAreas)
    /\ \E u \in BOOLEAN :
         p_html = [unparseable |-> u,
                   areas |-> [k \in 1..Len(p_gens) |-> Render(p_gens[k])]]
    /\ p_result = NoResult
    /\ SliceOff
    /\ fs = EmptyFS
    /\ ReqOff

ParseCall ==
    /\ p_pc = "ready"
    /\ p_result' = parse_html_map(p_html)
    /\ p_pc' = "done"
    /\ UNCHANGED <<p_gens, p_html, svars, fs, rvars>>

NextParse == ParseCall

SpecParse == InitParse /\ [][NextParse]_vars

\* ------------------------------------------------------------- SpecSlice
SliceIndexes == {0, 1}

SliceSource == <<UPLOAD_FOLDER, 0, <<"image", 0>>>>

SliceOutputDir == <<SLICES_FOLDER, 0>>

\* The filesystem a slice_image call finds: the source image of size w x h
\* (missing when io = "unreadable") and the output directory (missing when
\* io = "nodir").
SliceFS(w, h, io) ==
    [dirs |-> {<<UPLOAD_FOLDER, 0>>} \cup (IF io = "nodir" THEN {} ELSE {SliceOutputDir}),
     files |-> IF io = "unreadable" THEN <<>>
               ELSE [p \in {SliceSource} |-> [w |-> w, h |-> h]]]

InitSlice ==
    /\ s_pc = "parse"
    /\ \E w \in 1..MaxDim, h \in 1..MaxDim, io \in {"ok", "unreadable", "nodir"},
          index \in SliceIndexes,
          rect \in [1..4 -> (0 - 1)..(MaxDim + 1)] :
         /\ s_in = [rect |-> rect, w |-> w, h |-> h, index |-> index, io |-> io]
         /\ s_str = Join([k \in 1..4 |-> FormatInt(rect[k])], ",")
         /\ fs = SliceFS(w, h, io)
    /\ s_region = <<>>
    /\ s_res = SliceFailure(EmptyFS, "")
    /\ s_valid = <<>>
    /\ ParseOff
    /\ ReqOff

\* the coords text parsed as the coords attribute of an <area>
SliceParse ==
    /\ s_pc = "parse"
    /\ s_region' = ParseArea([coords |-> Attr(s_str), shape |-> NoAttr,
                              href |-> NoAttr, alt |-> NoAttr, title |-> NoAttr])
    /\ s_pc' = "slice"
    /\ UNCHANGED <<s_in, s_str, s_res, s_valid, pvars, fs, rvars>>

SliceCall ==
    /\ s_pc = "slice"
    /\ s_region # <<>>
    /\ s_res' = slice_image(fs, SliceSource, s_region[1].coords, s_in.index, SliceOutputDir)
    /\ fs' = s_res'.fs
    /\ s_pc' = "done"
    /\ UNCHANGED <<s_in, s_str, s_region, s_valid, pvars, rvars>>

\* the same coordinates handed to validate_coordinates with the image size
SliceValidate ==
    /\ s_pc = "done"
    /\ s_valid = <<>>
    /\ s_valid' = <<validate_coordinates(s_region[1].coords, s_in.w, s_in.h)>>
    /\ UNCHANGED <<s_pc, s_in, s_str, s_region, s_res, pvars, fs, rvars>>

NextSlice == SliceParse \/ SliceCall \/ SliceValidate

SpecSlice == InitSlice /\ [][NextSlice]_vars

\* --------------------------------------------------- utils/uploader.py
\* f"{session_id}_slice_{i}"
PublicId(session_id, i) == <<session_id, i>>

\* secure_url of an image stored remotely under public_id
CloudUrl(public_id) == <<"cloudinary", public_id>>

\* f"/static/images/{dest.name}"
LocalUrl(public_id) == <<"local", public_id>>

\* LOCAL_STATIC_DIR / f"{public_id}{ext}"
LocalDest(public_id) == <<"static", public_id[1], <<"slice", public_id[2]>>>>

UploadRaised(st, tried) ==
    [raised |-> TRUE, url |-> <<>>, remote_tried |-> tried, fs |-> st.fs, cloud |-> st.cloud]

\* _CLOUDINARY_IMPORTED and _CLOUDINARY_ENABLED, and cloudinary.config() passing
CloudinaryConfig(e) == e.cloudinary_enabled

\* _upload_to_cloudinary: st is [fs, cloud]; remote_ok is whether cu.upload
\* answers with a URL this time.
UploadToCloudinaryImpl(e, st, image_path, public_id, remote_ok) ==
    IF ~CloudinaryConfig(e) THEN UploadRaised(st, FALSE)
    ELSE IF image_path \notin DOMAIN st.fs.files \/ ~remote_ok THEN UploadRaised(st, TRUE)
    ELSE [raised |-> FALSE, url |-> CloudUrl(public_id), remote_tried |-> TRUE,
          fs |-> st.fs,
          cloud |-> [q \in (DOMAIN st.cloud) \cup {public_id} |->
                        IF q = public_id THEN st.fs.files[image_path] ELSE st.cloud[q]]]

\* _upload_to_local: the file is moved under the static directory
UploadToLocalImpl(st, image_path, public_id) ==
    IF image_path \notin DOMAIN st.fs.files THEN UploadRaised(st, FALSE)
    ELSE LET kept == [q \in (DOMAIN st.fs.files) \ {image_path} |-> st.fs.files[q]]
             moved == [st.fs EXCEPT !.files = kept]
         IN  [raised |-> FALSE, url |-> LocalUrl(public_id), remote_tried |-> FALSE,
              fs |-> WriteFile(moved, LocalDest(public_id), st.fs.files[image_path]),
              cloud |-> st.cloud]

\* FORCE_DEST: UPLOAD_DEST as the uploader reads it.  Only upload_image
\* reads it, and process_image does not call upload_image, so the state of
\* Spec does not carry it.
ForceDests == {"", "local", "cloudinary"}

\* upload_image under FORCE_DEST = force_dest: the forced destination, else
\* the remote store with the local fallback
upload_image(force_dest, e, st, image_path, public_id, remote_ok) ==
    IF force_dest = "cloudinary"
    THEN UploadToCloudinaryImpl(e, st, image_path, public_id, remote_ok)
    ELSE IF force_dest = "local" THEN UploadToLocalImpl(st, image_path, public_id)
    ELSE LET up == UploadToCloudinaryImpl(e, st, image_path, public_id, remote_ok)
         IN  IF CloudinaryConfig(e) /\ ~up.raised THEN up
             ELSE [UploadToLocalImpl(st, image_path, public_id)
                      EXCEPT !.remote_tried = up.remote_tried]

\* upload_to_cloudinary, the name app.py imports: no forced destination is
\* read and no fallback is taken
upload_to_cloudinary(e, st, image_path, public_id, remote_ok) ==
    UploadToCloudinaryImpl(e, st, image_path, public_id, remote_ok)

\* ------------------------------------------------------------- app.py
ALLOWED_EXTENSIONS ==
    { <<"p", "n", "g">>, <<"j", "p", "g">>, <<"j", "p", "e", "g">>, <<"g", "i", "f">> }

\* '.' in filename and filename.rsplit('.', 1)[1].lower() in ALLOWED_EXTENSIONS
allowed_file(filename) ==
    LET parts == Split(filename, ".")
    IN  Len(parts) > 1 /\ Lower(parts[Len(parts)]) \in ALLOWED_EXTENSIONS

\* faulty variant of uuid4: an identifier that may have been produced before
uuid4_Repeating(used) == 1..(Cardinality(used) + 1)

\* str(uuid.uuid4()): an identifier never produced before, named by its
\* order of generation
uuid4(used) == {Cardinality(used) + 1}

SessionUploadDir(session_id) == <<UPLOAD_FOLDER, session_id>>

SessionSlicesDir(session_id) == <<SLICES_FOLDER, session_id>>

\* secure_filename(file.filename): one flat name inside the session directory
SecureName == <<"image", 0>>

HtmlPath(session_id) == <<OUTPUT_FOLDER, session_id, <<"html", 0>>>>

ZipPath(session_id) == <<OUTPUT_FOLDER, session_id, <<"zip", 0>>>>

\* faulty variant of cleanup_session_files: only the upload directory of the
\* session is removed
cleanup_session_files_UploadOnly(f, session_id) ==
    IF SessionUploadDir(session_id) \in f.dirs
    THEN RmTree(f, SessionUploadDir(session_id)) ELSE f

\* cleanup_session_files: both session directories removed when they exist
\* (shutil.rmtree is taken to succeed)
cleanup_session_files(f, session_id) ==
    LET a == IF SessionUploadDir(session_id) \in f.dirs
             THEN RmTree(f, SessionUploadDir(session_id)) ELSE f
    IN  IF SessionSlicesDir(session_id) \in a.dirs
        THEN RmTree(a, SessionSlicesDir(session_id)) ELSE a

\* The requests a client can post: the image part, its file name, the
\* map_html field (as written, and as the parser receives it) and the image.
Posted(has_image, filename, blank, unparseable, gens) ==
    [has_image |-> has_image, filename |-> filename, blank |-> blank,
     gens |-> gens,
     html |-> [unparseable |-> unparseable,
               areas |-> [k \in 1..Len(gens) |-> Render(gens[k])]],
     image |-> [w |-> 2, h |-> 2]]

PngName == <<"a", ".", "P", "N", "G">>

AreaTop == Gen(Attr(<<T0, T0, T2, T1>>), NoAttr, FullMeta)

AreaRight == Gen(Attr(<<T1, T0, TPadded, T2>>), Attr(ShapeUpper), HrefOnly)

AreaReversed == Gen(Attr(<<T2, T2, T1, T1>>), NoAttr, NoMeta)

AreaBroken == Gen(Attr(<<T0, TWord, T1, T1>>), NoAttr, NoMeta)

\* no valid area; a valid area, then one slice_image refuses; two valid
\* areas around a malformed one
PostedMaps ==
    << <<AreaBroken>>, <<AreaTop, AreaReversed>>, <<AreaRight, AreaBroken, AreaTop>> >>

\* Four requests the input checks refuse (no image part, empty file name,
\* blank map_html, extension not allowed), one whose markup cannot be
\* parsed, and one per posted map.  A request holds the index of its input.
RequestInputs ==
    << Posted(FALSE, <<>>, FALSE, FALSE, <<AreaTop>>),
       Posted(TRUE, <<>>, FALSE, FALSE, <<AreaTop>>),
       Posted(TRUE, PngName, TRUE, FALSE, <<>>),
       Posted(TRUE, <<"a", ".", "t", "x", "t">>, FALSE, FALSE, <<AreaTop>>),
       Posted(TRUE, PngName, FALSE, TRUE, <<AreaTop>>) >>
    \o [k \in 1..Len(PostedMaps) |-> Posted(TRUE, PngName, FALSE, FALSE, PostedMaps[k])]

\* request.files and request.form of a request record
InputOf(rec) == RequestInputs[rec.input]

Reqs == 1..NumReq

\* the locals of process_image before the request arrives
IdleReq ==
    [pc |-> "start", outcome |-> "", session_id |-> 0, input |-> 1,
     file_path |-> <<>>, areas |-> <<>>, i |-> 0, slice_path |-> <<>>,
     sliced_images |-> <<>>, log |-> <<>>]

Event(op, i, ok, on_disk, remote_ok, remote_tried, url) ==
    [op |-> op, i |-> i, ok |-> ok, on_disk |-> on_disk, remote_ok |-> remote_ok,
     remote_tried |-> remote_tried, url |-> url]

\* what request r touched that another request wrote
Foreign(r, paths) ==
    { [by |-> r, path |-> q, of |-> writer[q]] :
        q \in {x \in paths \cap DOMAIN writer : writer[x] # r} }

\* writer after request r removed `gone` and wrote `made`
Rewritten(r, gone, made) ==
    [q \in ((DOMAIN writer) \ gone) \cup made |-> IF q \in made THEN r ELSE writer[q]]

\* the directories and files of `before` that `after` no longer holds
Removed(before, after) ==
    (before.dirs \cup DOMAIN before.files) \ (after.dirs \cup DOMAIN after.files)

\* the request ends: flash and redirect, or the rendered result
Ended(rec, outcome) == [rec EXCEPT !.pc = "done", !.outcome = outcome]

\* lines 82-113: session id, the four input checks, session directories,
\* the uploaded file saved (makedirs and file.save are taken to succeed)
Start(r) ==
    /\ req[r].pc = "start"
    /\ \E k \in DOMAIN RequestInputs, session_id \in uuid4(used_ids) :
         LET rec == [req[r] EXCEPT !.session_id = session_id, !.input = k]
             input == RequestInputs[k]
             rejected == \/ ~input.has_image
                         \/ input.filename = <<>>
                         \/ input.blank
                         \/ ~allowed_file(input.filename)
             file_path == PathJoin(SessionUploadDir(session_id), SecureName)
             made == MakeDirs(MakeDirs(fs, SessionUploadDir(session_id)),
                              SessionSlicesDir(session_id))
             paths == {SessionUploadDir(session_id), SessionSlicesDir(session_id), file_path}
         IN  /\ used_ids' = used_ids \cup {session_id}
             /\ IF rejected
                THEN /\ req' = [req EXCEPT ![r] = Ended(rec, "rejected")]
                     /\ UNCHANGED <<fs, writer, collisions>>
                ELSE /\ req' = [req EXCEPT ![r] = [rec EXCEPT !.pc = "parse",
                                                              !.file_path = file_path]]
                     /\ fs' = WriteFile(made, file_path, input.image)
                     /\ collisions' = collisions \cup Foreign(r, paths)
                     /\ writer' = Rewritten(r, {}, paths)
    /\ UNCHANGED <<pvars, svars, env, cloud>>

\* lines 116-123: the map parsed; no area ends the request
Parse(r) ==
    /\ req[r].pc = "parse"
    /\ LET areas == parse_html_map(InputOf(req[r]).html).value
           gone == Removed(fs, cleanup_session_files(fs, req[r].session_id))
       IN  IF areas = <<>>
           THEN /\ req' = [req EXCEPT ![r] = Ended(@, "no_areas")]
                /\ fs' = cleanup_session_files(fs, req[r].session_id)
                /\ collisions' = collisions \cup Foreign(r, gone)
                /\ writer' = Rewritten(r, gone, {})
           ELSE /\ req' = [req EXCEPT ![r] = [@ EXCEPT !.pc = "slice", !.areas = areas,
                                                       !.i = 0, !.sliced_images = <<>>]]
                /\ UNCHANGED <<fs, writer, collisions>>
    /\ UNCHANGED <<pvars, svars, env, cloud, used_ids>>

\* faulty variant of AfterSlice: the next region is sliced before the upload
AfterSlice_SliceAhead(rec, path) ==
    IF rec.i + 1 < Len(rec.areas)
    THEN [rec EXCEPT !.i = @ + 1, !.slice_path = path]
    ELSE [rec EXCEPT !.pc = "upload", !.slice_path = path]

\* line 127 returned: the upload of the same region comes next
AfterSlice(rec, path) == [rec EXCEPT !.pc = "upload", !.slice_path = path]

\* faulty variant of RegionFailed: the failure is logged and the loop goes on
\* with the next region
RegionFailed_Skip(rec, f, outcome) ==
    [rec |-> IF rec.i + 1 < Len(rec.areas)
             THEN [rec EXCEPT !.pc = "slice", !.i = @ + 1]
             ELSE [rec EXCEPT !.pc = "finish", !.i = @ + 1],
     fs |-> f]

\* lines 139-143: the session files removed, the request ended
RegionFailed(rec, f, outcome) ==
    [rec |-> Ended(rec, outcome), fs |-> cleanup_session_files(f, rec.session_id)]

\* line 127: slice_image for region i
Slice(r) ==
    /\ req[r].pc = "slice"
    /\ LET rec == req[r]
           res == slice_image(fs, rec.file_path, rec.areas[rec.i + 1].coords, rec.i,
                              SessionSlicesDir(rec.session_id))
           logged == [rec EXCEPT !.log = Append(@, Event("slice", rec.i, ~res.raised,
                                                    FALSE, FALSE, FALSE, <<>>))]
           failed == RegionFailed(logged, fs, "slice_error")
           gone == Removed(fs, failed.fs)
       IN  IF res.raised
           THEN /\ req' = [req EXCEPT ![r] = failed.rec]
                /\ fs' = failed.fs
                /\ collisions' = collisions \cup Foreign(r, {rec.file_path} \cup gone)
                /\ writer' = Rewritten(r, gone, {})
           ELSE /\ req' = [req EXCEPT ![r] = AfterSlice(logged, res.path)]
                /\ fs' = res.fs
                /\ collisions' = collisions \cup Foreign(r, {rec.file_path, res.path})
                /\ writer' = Rewritten(r, {}, {res.path})
    /\ UNCHANGED <<pvars, svars, env, cloud, used_ids>>

CloudKey(public_id) == <<"cloudinary", public_id[1], <<"slice", public_id[2]>>>>

\* lines 130-137: the slice uploaded and its entry appended; remote_ok is
\* the answer of the remote store (none is asked for without configuration)
Upload(r) ==
    /\ req[r].pc = "upload"
    /\ \E remote_ok \in (IF CloudinaryConfig(env) THEN BOOLEAN ELSE {FALSE}) :
         LET rec == req[r]
             public_id == PublicId(rec.session_id, rec.i)
             up == upload_to_cloudinary(env, [fs |-> fs, cloud |-> cloud],
                                        rec.slice_path, public_id, remote_ok)
             logged == [rec EXCEPT !.log = Append(@, Event("upload", rec.i, ~up.raised,
                                                  rec.slice_path \in DOMAIN fs.files,
                                                  remote_ok, up.remote_tried, up.url))]
             failed == RegionFailed(logged, fs, "upload_error")
             gone == Removed(fs, failed.fs)
             area == rec.areas[rec.i + 1]
         IN  IF up.raised
             THEN /\ req' = [req EXCEPT ![r] = failed.rec]
                  /\ fs' = failed.fs
                  /\ collisions' = collisions \cup Foreign(r, {rec.slice_path} \cup gone)
                  /\ writer' = Rewritten(r, gone, {})
                  /\ UNCHANGED cloud
             ELSE /\ req' = [req EXCEPT ![r] =
                        [logged EXCEPT
                            !.sliced_images = Append(@, [url |-> up.url, href |-> area.href,
                                                         alt |-> area.alt,
                                                         title |-> area.title]),
                            !.i = @ + 1,
                            !.pc = IF rec.i + 1 < Len(rec.areas) THEN "slice" ELSE "finish"]]
                  /\ fs' = up.fs
                  /\ cloud' = up.cloud
                  /\ collisions' = collisions \cup
                                   Foreign(r, {rec.slice_path, CloudKey(public_id)})
                  /\ writer' = Rewritten(r, {}, {CloudKey(public_id)})
    /\ UNCHANGED <<pvars, svars, env, used_ids>>

\* lines 146-178: the template and the archive written, the session files
\* removed; a write that raises is caught by the outer handler
Finish(r) ==
    /\ req[r].pc = "finish"
    /\ \E io \in {"ok", "html_raises", "zip_raises"} :
         LET rec == req[r]
             html == HtmlPath(rec.session_id)
             zip == ZipPath(rec.session_id)
             content == [entries |-> rec.sliced_images]
             written == IF io = "html_raises" THEN fs
                        ELSE IF io = "zip_raises" THEN WriteFile(fs, html, content)
                        ELSE WriteFile(WriteFile(fs, html, content), zip, content)
             made == IF io = "html_raises" THEN {}
                     ELSE IF io = "zip_raises" THEN {html} ELSE {html, zip}
             gone == Removed(written, cleanup_session_files(written, rec.session_id))
         IN  /\ req' = [req EXCEPT ![r] = Ended(rec, IF io = "ok" THEN "success" ELSE "error")]
             /\ fs' = cleanup_session_files(written, rec.session_id)
             /\ collisions' = collisions \cup Foreign(r, made \cup gone)
             /\ writer' = Rewritten(r, gone, made)
    /\ UNCHANGED <<pvars, svars, env, cloud, used_ids>>

Init ==
    /\ ParseOff
    /\ SliceOff
    /\ fs = EmptyFS
    /\ env \in [cloudinary_enabled : BOOLEAN]
    /\ req = [r \in Reqs |-> IdleReq]
    /\ cloud = <<>>
    /\ used_ids = {}
    /\ writer = <<>>
    /\ collisions = {}

Next == \E r \in Reqs : Start(r) \/ Parse(r) \/ Slice(r) \/ Upload(r) \/ Finish(r)

Spec == Init /\ [][Next]_vars

\* ------------------------------------------------- claims on the parser
\* What the caller can say of a written <area> without running the parser:
\* coords present with exactly four integer tokens, shape absent or "rect"
\* in some casing.
GenValid(g) ==
    /\ g.toks # NoAttr
    /\ Len(g.toks[1]) = 4
    /\ \A k \in 1..Len(g.toks[1]) : g.toks[1][k].isint
    /\ g.shape = NoAttr \/ g.shape[1].rect

GenCoords(g) == [k \in 1..Len(g.toks[1]) |-> g.toks[1][k].val]

ValidGens == SelectSeq(p_gens, GenValid)

\* C1: for every list of <area> elements, the returned list is exactly the
\* subsequence of the well-formed elements (non-empty coords of exactly four
\* integer tokens, shape absent or "rect" in any casing), in document order:
\* the k-th region carries the coords values and the href of the k-th
\* well-formed element, whatever malformed elements stand before it.
C1_ValidSubsequence ==
    (p_pc = "done" /\ ~p_html.unparseable) =>
        /\ Len(p_result.value) = Len(ValidGens)
        /\ \A k \in 1..Len(ValidGens) :
             /\ p_result.value[k].coords = GenCoords(ValidGens[k])
             /\ p_result.value[k].href = Get(ValidGens[k].meta.href, <<"#">>)
             /\ p_result.value[k].alt = Get(ValidGens[k].meta.alt, <<>>)

\* a malformed element followed by a well-formed one: only the second is returned
C1_Witness ==
    /\ p_pc = "done"
    /\ ~p_html.unparseable
    /\ Len(p_gens) = 2
    /\ ~GenValid(p_gens[1])
    /\ GenValid(p_gens[2])
    /\ p_gens[2].shape = Attr(ShapeMixed)
    /\ Len(p_result.value) = 1
    /\ p_result.value[1].coords = <<0, 0, 1, 2>>

\* C4 as claimed: every returned Region has four integer coordinates with
\* x1 < x2 and y1 < y2.
C4_OrderedCoords ==
    p_pc = "done" =>
        \A k \in 1..Len(p_result.value) :
            LET c == p_result.value[k].coords
            IN  Len(c) = 4 /\ c[1] < c[3] /\ c[2] < c[4]

\* C4 as amended: every returned Region has exactly four coordinates, each
\* an integer; their order relation is not checked by the parser.
C4_FourIntegers ==
    p_pc = "done" =>
        \A k \in 1..Len(p_result.value) :
            LET c == p_result.value[k].coords
            IN  Len(c) = 4 /\ \A j \in 1..Len(c) : c[j] \in Int

\* a returned Region whose rectangle is reversed (x1 >= x2 and y1 >= y2)
C4_Witness ==
    /\ p_pc = "done"
    /\ \E k \in 1..Len(p_result.value) :
         LET c == p_result.value[k].coords
         IN  Len(c) = 4 /\ c[1] >= c[3] /\ c[2] >= c[4]

\* C5: parse_html_map never raises; it returns the empty list when the
\* input has no elements, no well-formed element or cannot be parsed, and
\* otherwise one region per well-formed element.
C5_NeverRaises ==
    p_pc = "done" =>
        /\ ~p_result.raised
        /\ (p_html.unparseable \/ ValidGens = <<>>) => p_result.value = <<>>
        /\ ~(p_html.unparseable \/ ValidGens = <<>>) =>
              /\ p_result.value # <<>>
              /\ Len(p_result.value) = Len(ValidGens)

\* markup that cannot be parsed although it was written with a well-formed area
C5_Witness ==
    /\ p_pc = "done"
    /\ p_html.unparseable
    /\ ValidGens # <<>>
    /\ ~p_result.raised
    /\ p_result.value = <<>>

\* the text an attribute of a written <area> is expected to be read as
Written(attr, missing) == IF attr = NoAttr THEN missing ELSE attr[1]

\* C11: every returned Region carries the four coords integers of its
\* element in their written order, the element's href or "#" when it has
\* none, its alt and its title or the empty string when it has none (an
\* attribute written with empty text stays empty); an element with no shape
\* attribute is read as shape "rect" and returned.
C11_RegionFields ==
    (p_pc = "done" /\ ~p_html.unparseable) =>
        /\ \A k \in 1..Len(p_result.value) :
             /\ k <= Len(ValidGens)
             /\ p_result.value[k].coords =
                   [j \in 1..4 |-> ValidGens[k].toks[1][j].val]
             /\ p_result.value[k].href = Written(ValidGens[k].meta.href, <<"#">>)
             /\ p_result.value[k].alt = Written(ValidGens[k].meta.alt, <<>>)
             /\ p_result.value[k].title = Written(ValidGens[k].meta.title, <<>>)
             /\ ValidGens[k].shape = NoAttr =>
                   p_result.value[k].shape = <<"r", "e", "c", "t">>
        /\ Cardinality({k \in 1..Len(p_result.value) :
                           p_result.value[k].shape = <<"r", "e", "c", "t">>})
             >= Cardinality({j \in 1..Len(p_gens) :
                                /\ p_gens[j].shape = NoAttr
                                /\ p_gens[j].toks # NoAttr
                                /\ Len(p_gens[j].toks[1]) = 4
                                /\ \A i \in 1..4 : p_gens[j].toks[1][i].isint})

\* two elements with no shape attribute returned: one with no href, alt or
\* title, whose coords are written in descending order, and one whose href,
\* alt and title are written with empty text
C11_Witness ==
    /\ p_pc = "done"
    /\ ~p_html.unparseable
    /\ Len(p_gens) = 2
    /\ p_gens[1].shape = NoAttr /\ p_gens[1].meta = NoMeta
    /\ p_gens[2].shape = NoAttr /\ p_gens[2].meta = EmptyMeta
    /\ Len(p_result.value) = 2
    /\ p_result.value[1].coords = <<2, 2, 1, 1>>
    /\ p_result.value[1].href = <<"#">>
    /\ p_result.value[1].alt = <<>>
    /\ p_result.value[1].shape = <<"r", "e", "c", "t">>
    /\ p_result.value[2].coords = <<2, 1, 0, 10>>
    /\ p_result.value[2].href = <<>>

\* ------------------------------------------------- claims on the slicer
RectInside ==
    /\ 0 <= s_in.rect[1] /\ s_in.rect[1] < s_in.rect[3] /\ s_in.rect[3] <= s_in.w
    /\ 0 <= s_in.rect[2] /\ s_in.rect[2] < s_in.rect[4] /\ s_in.rect[4] <= s_in.h

\* C2: for a readable W x H image, a writable output directory and integers
\* 0 <= x1 < x2 <= W, 0 <= y1 < y2 <= H, the text "x1,y1,x2,y2" parses to
\* those four integers and slice_image succeeds, writing
\* outputDir/slice_{index}.png of width x2-x1 and height y2-y1 (so the
\* full rectangle (0,0,W,H) yields the size of the source).
C2_SliceDimensions ==
    (RectInside /\ s_in.io = "ok") =>
        /\ s_pc # "parse" => s_region # <<>> /\ s_region[1].coords = s_in.rect
        /\ s_pc = "done" =>
             /\ ~s_res.raised
             /\ s_res.path = <<"slices", 0, <<"slice", s_in.index>>>>
             /\ s_res.path \in DOMAIN fs.files
             /\ fs.files[s_res.path] = [w |-> s_in.rect[3] - s_in.rect[1],
                                        h |-> s_in.rect[4] - s_in.rect[2]]

\* the full rectangle of a 2 x 1 image sliced into a 2 x 1 file
C2_Witness ==
    /\ s_pc = "done"
    /\ s_in.io = "ok"
    /\ s_in.w = 2 /\ s_in.h = 1
    /\ s_in.rect = <<0, 0, 2, 1>>
    /\ ~s_res.raised
    /\ fs.files[s_res.path] = [w |-> 2, h |-> 1]

\* C3: slice_image raises the generic "Failed to slice image" failure
\* whenever x1 < 0, y1 < 0, x2 > W, y2 > H, x1 >= x2 or y1 >= y2, for any
\* image size and whatever the other values; the filesystem is then as it
\* was: no output file is written and the source image is unchanged.
C3_InvalidRectFails ==
    (s_pc = "done" /\ ~RectInside) =>
        /\ s_res.raised
        /\ s_res.message = "Failed to slice image"
        /\ fs = SliceFS(s_in.w, s_in.h, s_in.io)

\* a rectangle that is well-ordered and only too wide, refused, nothing written
C3_Witness ==
    /\ s_pc = "done"
    /\ s_in.io = "ok"
    /\ s_in.rect[1] = 0 /\ s_in.rect[2] = 0
    /\ s_in.rect[3] > s_in.w /\ s_in.rect[4] = s_in.h
    /\ s_res.raised
    /\ DOMAIN fs.files = {SliceSource}

\* C13: for every four-integer rectangle and every readable W x H image,
\* validate_coordinates(coords, W, H) returns True exactly when slice_image
\* raises neither its out-of-bounds nor its degenerate-rectangle failure for
\* those coordinates.
C13_ValidationsAgree ==
    (s_pc = "done" /\ s_valid # <<>> /\ s_in.io # "unreadable") =>
        (s_valid[1] <=> s_res.cause \notin {"bounds", "degenerate"})

\* a rectangle touching the right and lower edge of the image, accepted by
\* validate_coordinates and sliced by slice_image
C13_Witness ==
    /\ s_pc = "done"
    /\ s_valid = <<TRUE>>
    /\ s_in.io = "ok"
    /\ s_in.rect[3] = s_in.w /\ s_in.rect[4] = s_in.h
    /\ ~s_res.raised

\* ------------------------------------------- claims on process_image
Failed(rec) == rec.outcome \in {"slice_error", "upload_error"}

OkEvents(rec, op) == {k \in 1..Len(rec.log) : rec.log[k].op = op /\ rec.log[k].ok}

\* C6: the loop never skips a region: while it runs, one entry stands for
\* each region before the current one; a request that succeeds has one
\* slice and one entry per valid Region parsed, the k-th entry carrying the
\* url of slice k-1 and the href, alt and title of the k-th Region; a failure
\* on a region ends the request with no template written.
C6_SlicesMatchRegions ==
    \A r \in Reqs :
        LET rec == req[r]
            valid == SelectSeq(InputOf(rec).gens, GenValid)
        IN  /\ rec.pc \in {"slice", "upload", "finish"} =>
                 /\ Len(rec.areas) = Len(valid)
                 /\ Len(rec.sliced_images) = rec.i
                 /\ Cardinality(OkEvents(rec, "upload")) = rec.i
            /\ rec.outcome = "success" =>
                 /\ Len(rec.sliced_images) = Len(valid)
                 /\ Cardinality(OkEvents(rec, "slice")) = Len(valid)
                 /\ \A k \in 1..Len(rec.sliced_images) :
                      /\ rec.sliced_images[k].url = <<"cloudinary", <<rec.session_id, k - 1>>>>
                      /\ rec.sliced_images[k].href = rec.areas[k].href
                      /\ rec.sliced_images[k].alt = rec.areas[k].alt
                      /\ rec.sliced_images[k].title = rec.areas[k].title
                 /\ fs.files[HtmlPath(rec.session_id)].entries = rec.sliced_images
            /\ (\E k \in 1..Len(rec.log) : ~rec.log[k].ok) =>
                 /\ rec.pc = "done"
                 /\ Failed(rec)
                 /\ HtmlPath(rec.session_id) \notin DOMAIN fs.files

\* three elements posted, the middle one malformed: two slices, two entries
C6_Witness ==
    \E r \in Reqs :
        /\ req[r].outcome = "success"
        /\ Len(InputOf(req[r]).gens) = 3
        /\ Len(req[r].sliced_images) = 2
        /\ req[r].sliced_images[2].href = <<"/", "a">>

\* C7: when the slicing or the upload of a region fails, the request ends,
\* no template and no archive is written for it, and no slice published for
\* its earlier regions remains in the store.
C7_NoPartialOutput ==
    \A r \in Reqs :
        Failed(req[r]) =>
            /\ req[r].pc = "done"
            /\ HtmlPath(req[r].session_id) \notin DOMAIN fs.files
            /\ ZipPath(req[r].session_id) \notin DOMAIN fs.files
            /\ \A public_id \in DOMAIN cloud : public_id[1] # req[r].session_id

InFlight(rec) == rec.pc \in {"parse", "slice", "upload", "finish"}

\* C8: under every interleaving, no request reads, writes, overwrites or
\* deletes a directory, file or remote image another request wrote; the
\* session ids of two requests differ; every path carries the session id
\* of the request that wrote it; and while a request runs its uploaded
\* image, its directories and the slice awaiting upload are on disk as it
\* wrote them.
C8_NoCollision ==
    /\ collisions = {}
    /\ \A r1 \in Reqs, r2 \in Reqs :
         (r1 # r2 /\ req[r1].session_id # 0 /\ req[r2].session_id # 0) =>
             req[r1].session_id # req[r2].session_id
    /\ \A q \in DOMAIN writer : q[2] = req[writer[q]].session_id
    /\ \A r \in Reqs :
         InFlight(req[r]) =>
             /\ SessionUploadDir(req[r].session_id) \in fs.dirs
             /\ SessionSlicesDir(req[r].session_id) \in fs.dirs
             /\ req[r].file_path \in DOMAIN fs.files
             /\ fs.files[req[r].file_path] = InputOf(req[r]).image
             /\ req[r].pc = "upload" =>
                  /\ req[r].slice_path \in DOMAIN fs.files
                  /\ fs.files[req[r].slice_path] =
                        [w |-> req[r].areas[req[r].i + 1].coords[3]
                                 - req[r].areas[req[r].i + 1].coords[1],
                         h |-> req[r].areas[req[r].i + 1].coords[4]
                                 - req[r].areas[req[r].i + 1].coords[2]]

\* a request that started later has ended and removed its session files
\* while an earlier one still awaits the upload of a slice
C8_Witness ==
    \E r1 \in Reqs, r2 \in Reqs :
        /\ req[r1].pc = "upload"
        /\ req[r2].pc = "done"
        /\ req[r2].outcome \in {"success", "slice_error", "upload_error"}
        /\ req[r2].session_id > req[r1].session_id
        /\ req[r1].slice_path \in DOMAIN fs.files

\* C9: within a request the calls alternate slice 0, upload 0, slice 1,
\* upload 1, ...: the k-th call is a slice when k is odd and an upload when
\* k is even, of region (k-1) div 2; every call follows a call that
\* succeeded; and an upload finds its slice on disk.
C9_SliceThenUpload ==
    \A r \in Reqs :
        \A k \in 1..Len(req[r].log) :
            LET e == req[r].log[k]
            IN  /\ e.op = IF k % 2 = 1 THEN "slice" ELSE "upload"
                /\ e.i = (k - 1) \div 2
                /\ k > 1 => req[r].log[k - 1].ok
                /\ e.op = "upload" => e.on_disk

\* two regions sliced and uploaded in turn
C9_Witness ==
    \E r \in Reqs :
        /\ Len(req[r].log) = 4
        /\ \A k \in 1..4 : req[r].log[k].ok
        /\ req[r].log[3].op = "slice" /\ req[r].log[3].i = 1
        /\ req[r].log[4].op = "upload" /\ req[r].log[4].i = 1

\* C10: every upload of a region follows the destination policy of
\* upload_image, whatever UPLOAD_DEST is: with no forced destination, a
\* missing configuration or a failure of the remote store does not fail the
\* upload and yields a local URL; forced to "local", the remote store is not
\* attempted; forced to "cloudinary", a remote failure raises.
C10_UploadFallback ==
    \A force_dest \in ForceDests, r \in Reqs :
        \A k \in 1..Len(req[r].log) :
            LET e == req[r].log[k]
                remote_down == ~CloudinaryConfig(env) \/ ~e.remote_ok
                public_id == PublicId(req[r].session_id, e.i)
                path == PathJoin(SessionSlicesDir(req[r].session_id), SliceName(e.i))
                on_disk == [fs |-> WriteFile(EmptyFS, path, [w |-> 1, h |-> 1]),
                            cloud |-> <<>>]
                policy == upload_image(force_dest, env, on_disk, path, public_id, e.remote_ok)
            IN  e.op = "upload" =>
                  /\ e.ok = ~policy.raised
                  /\ e.url = policy.url
                  /\ (force_dest = "" /\ remote_down) => e.ok /\ e.url = LocalUrl(public_id)
                  /\ force_dest = "local" => ~e.remote_tried /\ e.ok
                  /\ (force_dest = "cloudinary" /\ remote_down) => ~e.ok

\* the directories and files request record rec has under its two session
\* directories
SessionLeftovers(rec) ==
    {d \in fs.dirs : d \in {<<"uploads", rec.session_id>>, <<"slices", rec.session_id>>}}
    \cup {q \in DOMAIN fs.files : q[1] \in {"uploads", "slices"} /\ q[2] = rec.session_id}

=============================================================================
